---------------------------- MODULE Spec2Model ----------------------------
(***************************************************************************)
(* MSPileup registry of WMCore: the MSPileupObj document validator and the *)
(* MSPileupData CRUD layer over a MongoDB collection with a unique index   *)
(* on pileupName.                                                          *)
(*                                                                         *)
(* A Python value is a pair <<type, payload>>; a dict is a function from   *)
(* key strings to values.  A float payload counts tenths (5 is 0.5).       *)
(*                                                                         *)
(* Also the GFAL2Impl stage-out backend: the shell commands it keeps and   *)
(* builds.  A command string is a sequence of pieces; a replacement field  *)
(* of str.format is a piece of its own.                                    *)
(***************************************************************************)
EXTENDS Integers, Sequences, FiniteSets, TLC

(* ------------------------------ bounds -------------------------------- *)

\* the clock runs from 0 to MaxTime seconds
MaxTime == 1

\* calls made to the registry in one behaviour
MaxCalls == 3

\* the concurrent callers of the registry
Procs == {"p1", "p2"}

\* calls made to one GFAL2Impl object in one behaviour
MaxGfalCalls == 2

(* --------------------------- Python values ---------------------------- *)

PyStr(s) == <<"str", s>>

PyInt(i) == <<"int", i>>

PyFloat(t) == <<"float", t>>

PyBool(b) == <<"bool", b>>

PyList(s) == <<"list", s>>

\* isinstance(val, stype): bool is a subclass of int in Python
isinstance(val, stype) ==
    \/ val[1] = stype
    \/ stype = "int" /\ val[1] = "bool"

\* Python truth value of a value ("not pname" is ~Truthy(pname))
Truthy(val) ==
    CASE val[1] = "str" -> val[2] # ""
      [] val[1] = "int" -> val[2] # 0
      [] val[1] = "float" -> val[2] # 0
      [] val[1] = "bool" -> val[2]
      [] val[1] = "list" -> val[2] # <<>>

\* the dict with no key
EmptyDict == [k \in {} |-> PyStr("")]

\* dict.get(key, default)
Get(d, key, default) == IF key \in DOMAIN d THEN d[key] ELSE default

\* the dict d with d[key] = val assigned
Put(d, key, val) ==
    [k \in DOMAIN d \cup {key} |-> IF k = key THEN val ELSE d[k]]

\* the elements of a sequence
Range(s) == {s[i] : i \in DOMAIN s}

(* ------------------------------ schema -------------------------------- *)

\* the keys of MSPileupObj.data, in the order __init__ inserts them
SchemaKeys ==
    << "pileupName", "pileupType", "insertTime", "lastUpdateTime",
       "expectedRSEs", "currentRSEs", "fullReplicas", "campaigns",
       "containerFraction", "replicationGrouping", "activatedOn",
       "deactivatedOn", "active", "pileupSize", "ruleList" >>

\* MSPileupObj.schema(): key -> (default value, expected data type)
schema ==
    [ pileupName |-> <<PyStr(""), "str">>,
      pileupType |-> <<PyStr(""), "str">>,
      insertTime |-> <<PyInt(0), "int">>,
      lastUpdateTime |-> <<PyInt(0), "int">>,
      expectedRSEs |-> <<PyList(<<>>), "list">>,
      currentRSEs |-> <<PyList(<<>>), "list">>,
      fullReplicas |-> <<PyInt(0), "int">>,
      campaigns |-> <<PyList(<<>>), "list">>,
      containerFraction |-> <<PyFloat(10), "float">>,
      replicationGrouping |-> <<PyStr(""), "str">>,
      activatedOn |-> <<PyInt(0), "int">>,
      deactivatedOn |-> <<PyInt(0), "int">>,
      active |-> <<PyBool(FALSE), "bool">>,
      pileupSize |-> <<PyInt(0), "int">>,
      ruleList |-> <<PyList(<<>>), "list">> ]

\* the names that match the dataset pattern /primary/processed/tier
DatasetNames == {"/A/B/C", "/D/E/F"}

\* WMCore.Lexicon.dataset(val): TRUE when val matches, an AssertionError otherwise
dataset(val) == val[2] \in DatasetNames

\* validateRSEs that returns from its loop after the first site
validateRSEsFirst(rseList, validRSEs) ==
    \/ rseList[2] = validRSEs
    \/ rseList[2] = <<>>
    \/ rseList[2][1] \in Range(validRSEs)

\* MSPileupObj.validateRSEs(rseList)
validateRSEs(rseList, validRSEs) ==
    \/ rseList[2] = validRSEs
    \/ \A i \in DOMAIN rseList[2] : rseList[2][i] \in Range(validRSEs)

\* the message of a validation that found nothing wrong
NoMsg == <<>>

\* the loop body whose range check turns away the ends of [0,1] too
validateKeyOpenRange(key, val, validRSEs) ==
    IF ~isinstance(val, schema[key][2])
      THEN <<"Failed to validate", key, "expect data-type", schema[key][2]>>
    ELSE IF key = "pileupName" /\ ~dataset(val)
      THEN <<"pileupName value does not match dataset pattern">>
    ELSE IF key = "pileupType" /\ val[2] \notin {"classic", "premix"}
      THEN <<"pileupType value is neither of", "classic", "premix">>
    ELSE IF key = "replicationGrouping" /\ val[2] \notin {"DATASET", "ALL"}
      THEN <<"replicationGrouping value is neither of", "DATASET", "ALL">>
    ELSE IF key = "containerFraction" /\ (val[2] >= 10 \/ val[2] <= 0)
      THEN <<"containerFraction value outside [0,1] range">>
    ELSE IF key \in {"expectedRSEs", "currentRSEs"} /\ ~validateRSEs(val, validRSEs)
      THEN <<key, "value is not in validRSEs">>
    ELSE NoMsg

\* the loop body that checks pileupType only when it is not empty
validateKeyEmptyType(key, val, validRSEs) ==
    IF ~isinstance(val, schema[key][2])
      THEN <<"Failed to validate", key, "expect data-type", schema[key][2]>>
    ELSE IF key = "pileupName" /\ ~dataset(val)
      THEN <<"pileupName value does not match dataset pattern">>
    ELSE IF key = "pileupType" /\ Truthy(val) /\ val[2] \notin {"classic", "premix"}
      THEN <<"pileupType value is neither of", "classic", "premix">>
    ELSE IF key = "replicationGrouping" /\ val[2] \notin {"DATASET", "ALL"}
      THEN <<"replicationGrouping value is neither of", "DATASET", "ALL">>
    ELSE IF key = "containerFraction" /\ (val[2] > 10 \/ val[2] < 0)
      THEN <<"containerFraction value outside [0,1] range">>
    ELSE IF key \in {"expectedRSEs", "currentRSEs"} /\ ~validateRSEs(val, validRSEs)
      THEN <<key, "value is not in validRSEs">>
    ELSE NoMsg

\* the body of validate's loop for one key: the message of its first failed
\* check, or NoMsg
validateKey(key, val, validRSEs) ==
    IF ~isinstance(val, schema[key][2])
      THEN <<"Failed to validate", key, "expect data-type", schema[key][2]>>
    ELSE IF key = "pileupName" /\ ~dataset(val)
      THEN <<"pileupName value does not match dataset pattern">>
    ELSE IF key = "pileupType" /\ val[2] \notin {"classic", "premix"}
      THEN <<"pileupType value is neither of", "classic", "premix">>
    ELSE IF key = "replicationGrouping" /\ val[2] \notin {"DATASET", "ALL"}
      THEN <<"replicationGrouping value is neither of", "DATASET", "ALL">>
    ELSE IF key = "containerFraction" /\ (val[2] > 10 \/ val[2] < 0)
      THEN <<"containerFraction value outside [0,1] range">>
    ELSE IF key \in {"expectedRSEs", "currentRSEs"} /\ ~validateRSEs(val, validRSEs)
      THEN <<key, "value is not in validRSEs">>
    ELSE NoMsg

\* the data types of the items of pdict from the i-th key on
RECURSIVE typesFrom(_, _)
typesFrom(i, pdict) ==
    IF i > Len(SchemaKeys) THEN NoMsg
    ELSE IF ~isinstance(pdict[SchemaKeys[i]], schema[SchemaKeys[i]][2])
      THEN <<"Failed to validate", SchemaKeys[i], "expect data-type", schema[SchemaKeys[i]][2]>>
    ELSE typesFrom(i + 1, pdict)

\* the value rules of the items of pdict from the i-th key on
RECURSIVE rulesFrom(_, _, _)
rulesFrom(i, pdict, validRSEs) ==
    IF i > Len(SchemaKeys) THEN NoMsg
    ELSE LET msg == validateKey(SchemaKeys[i], pdict[SchemaKeys[i]], validRSEs)
         IN  IF msg # NoMsg THEN msg ELSE rulesFrom(i + 1, pdict, validRSEs)

\* the validation in two loops: the data type of every item, then the value
\* rules of every item
validateFromTypesFirst(i, pdict, validRSEs) ==
    IF typesFrom(i, pdict) # NoMsg THEN typesFrom(i, pdict)
    ELSE rulesFrom(i, pdict, validRSEs)

\* validate's loop over the items of pdict from the i-th key on
RECURSIVE validateFrom(_, _, _)
validateFrom(i, pdict, validRSEs) ==
    IF i > Len(SchemaKeys) THEN NoMsg
    ELSE LET msg == validateKey(SchemaKeys[i], pdict[SchemaKeys[i]], validRSEs)
         IN  IF msg # NoMsg THEN msg ELSE validateFrom(i + 1, pdict, validRSEs)

\* MSPileupObj.validate(pdict): (boolean status, message)
validate(pdict, validRSEs) ==
    IF DOMAIN pdict # DOMAIN schema
      THEN <<FALSE, <<"provided object keys are not equal to schema keys">>>>
    ELSE LET msg == validateFrom(1, pdict, validRSEs)
         IN  <<msg = NoMsg, msg>>

\* the default MSPileupObj.__init__ gives an omitted key at clock reading t
initDefault(key, t) ==
    CASE key \in {"insertTime", "lastUpdateTime", "activatedOn", "deactivatedOn"} -> PyInt(t)
      [] key \in {"pileupName", "pileupType", "replicationGrouping"} -> PyStr("")
      [] key \in {"expectedRSEs", "currentRSEs", "campaigns", "ruleList"} -> PyList(<<>>)
      [] key \in {"fullReplicas", "pileupSize"} -> PyInt(0)
      [] key = "containerFraction" -> PyFloat(10)
      [] key = "active" -> PyBool(FALSE)

\* MSPileupObj.__init__: self.data, built from pdict at clock reading t
initData(pdict, t) ==
    [k \in Range(SchemaKeys) |-> Get(pdict, k, initDefault(k, t))]

\* the constructor that does not raise on an invalid input
MSPileupObjNoRaise(pdict, validRSEs, t) ==
    [ok |-> TRUE, data |-> initData(pdict, t), msg |-> NoMsg]

\* MSPileupObj(pdict, validRSEs=...): the validated data, or the raised message
MSPileupObj(pdict, validRSEs, t) ==
    LET data == initData(pdict, t)
        v == validate(data, validRSEs)
    IN  IF v[1] THEN [ok |-> TRUE, data |-> data, msg |-> NoMsg]
        ELSE [ok |-> FALSE, data |-> data,
              msg |-> <<"MSPileup input is invalid">> \o v[2]]

\* the validRSEs argument of MSPileupObj when the caller gives none (None)
NoRSEs == [given |-> FALSE, rses |-> <<>>]

\* MSPileupObj.__init__: self.validRSEs, the empty list unless a non-empty
\* one is given
initRSEs(cfg) == IF ~cfg.given \/ cfg.rses = <<>> THEN <<>> ELSE cfg.rses

\* no MSPileupObj constructed yet
NoObj == [ok |-> FALSE, data |-> EmptyDict, msg |-> NoMsg]

\* self.validate(pdict) on the object self = (data, validRSEs): a pdict that
\* is None or empty stands for self.data
validateSelf(self, pdict) ==
    validate(IF DOMAIN pdict = {} THEN self.data ELSE pdict, self.validRSEs)

(* --------------------------- error taxonomy --------------------------- *)

\* MSPileupError.error(): the plain form of an error (its kind, the offending
\* input, the message)
MSPileupError(kind, data, message) ==
    [error |-> kind, data |-> data, message |-> message]

MSPileupDuplicateDocumentError(data, message) ==
    MSPileupError("MSPileupDuplicateDocumentError", data, message)

MSPileupUniqueConstrainError(data, message) ==
    MSPileupError("MSPileupUniqueConstrainError", data, message)

MSPileupNoKeyFoundError(data, message) ==
    MSPileupError("MSPileupNoKeyFoundError", data, message)

MSPileupDatabaseError(data, message) ==
    MSPileupError("MSPileupDatabaseError", data, message)

(* ------------------------- the store collection ------------------------ *)

\* msConfig['validRSEs'], read once by the constructor
validRSEs == <<"Disk1", "Disk2">>

\* the index declared without its unique flag
mongoIndexNotUnique == [key |-> "pileupName", unique |-> FALSE]

\* mongoIndex = IndexModel('pileupName', unique=True), the collection's index
mongoIndex == [key |-> "pileupName", unique |-> TRUE]

\* the store's own row identifier
ObjectId(n) == <<"oid", n>>

\* a document matches a query spec when it has every key of the spec with
\* the spec's value
Matches(d, spec) ==
    \A k \in DOMAIN spec : k \in DOMAIN d /\ d[k] = spec[k]

\* the positions of the documents of coll that match spec, in store order
MatchingAt(coll, spec) == {i \in DOMAIN coll : Matches(coll[i], spec)}

\* the first position of coll matching spec (0: none)
FirstMatch(coll, spec) ==
    IF MatchingAt(coll, spec) = {} THEN 0
    ELSE CHOOSE i \in MatchingAt(coll, spec) :
             \A j \in MatchingAt(coll, spec) : i <= j

\* coll without its i-th document
RemoveAt(coll, i) ==
    [j \in 1..(Len(coll) - 1) |-> IF j < i THEN coll[j] ELSE coll[j + 1]]

\* no projection (None), or the keys a projection includes
NoProjection == [given |-> FALSE, keys |-> {}]

\* a document under a projection: the included keys and the row identifier
Project(d, projection) ==
    IF ~projection.given THEN d
    ELSE [k \in (DOMAIN d) \cap (projection.keys \cup {"_id"}) |-> d[k]]

\* collection.find(spec, projection)
find(coll, spec, projection) ==
    LET hits == SelectSeq(coll, LAMBDA d : Matches(d, spec))
    IN  [i \in DOMAIN hits |-> Project(hits[i], projection)]

\* whether inserting doc would break a unique index of the collection
DuplicateKey(coll, doc) ==
    /\ mongoIndex.unique
    /\ \E i \in DOMAIN coll : coll[i][mongoIndex.key] = doc[mongoIndex.key]

\* collection.insert_one(doc), the n-th insert of the store
insert_one(coll, doc, n) ==
    IF DuplicateKey(coll, doc) THEN coll
    ELSE Append(coll, Put(doc, "_id", ObjectId(n)))

\* a document with the fields of setdoc assigned ($set)
SetFields(d, setdoc) ==
    [k \in DOMAIN d \cup DOMAIN setdoc |->
        IF k \in DOMAIN setdoc THEN setdoc[k] ELSE d[k]]

\* collection.update_one(spec, {"$set": setdoc}): the first match, no upsert
update_one(coll, spec, setdoc) ==
    LET i == FirstMatch(coll, spec)
    IN  IF i = 0 THEN coll
        ELSE [coll EXCEPT ![i] = SetFields(coll[i], setdoc)]

\* collection.delete_one(spec): the first match
delete_one(coll, spec) ==
    LET i == FirstMatch(coll, spec)
    IN  IF i = 0 THEN coll ELSE RemoveAt(coll, i)

(* ------------------------------ GFAL2Impl ------------------------------ *)

\* template.format(arg) for a template with one positional field: arg takes
\* the place of the field as it is, its own braces untouched
RECURSIVE format(_, _)
format(template, arg) ==
    IF template = <<>> THEN <<>>
    ELSE IF Head(template) = "{}" THEN arg \o Tail(template)
    ELSE <<Head(template)>> \o format(Tail(template), arg)

\* the named replacement fields of copyOpts
CopyFields == {"{checksum}", "{options}", "{source}", "{destination}"}

\* the key a named replacement field stands for
FieldKey(field) ==
    CASE field = "{checksum}" -> "checksum"
      [] field = "{options}" -> "options"
      [] field = "{source}" -> "source"
      [] field = "{destination}" -> "destination"

\* template.format_map(mapping)
RECURSIVE format_map(_, _)
format_map(template, mapping) ==
    IF template = <<>> THEN <<>>
    ELSE IF Head(template) \in CopyFields
      THEN mapping[FieldKey(Head(template))] \o format_map(Tail(template), mapping)
    ELSE <<Head(template)>> \o format_map(Tail(template), mapping)

\* the three values adjustSetup gives self.setups
SetupsPlain == << "env -i JOBSTARTDIR=$JOBSTARTDIR bash -c '", "{}", "'" >>

SetupsX509 ==
    << "env -i X509_USER_PROXY=$X509_USER_PROXY JOBSTARTDIR=$JOBSTARTDIR bash -c '",
       "{}", "'" >>

SetupsToken ==
    << "env -i BEARER_TOKEN_FILE=$BEARER_TOKEN_FILE BEARER_TOKEN=$(cat $BEARER_TOKEN_FILE) JOBSTARTDIR=$JOBSTARTDIR bash -c '",
       "{}", "'" >>

\* self.copyOpts
CopyOpts ==
    << "-t 2400 -T 2400 -p -v --abort-on-failure ", "{checksum}", " ",
       "{options}", " ", "{source}", " ", "{destination}" >>

\* the start of every command run in the clean shell
StartupEnv == ". $JOBSTARTDIR/startup_environment.sh; "

\* the unset of the token variables, as the continued string literals of the
\* copy and of the remove command spell it
UnsetTokenCopy == "unset BEARER_TOKEN;                                                        unset BEARER_TOKEN_FILE; "

UnsetTokenRemove == "unset BEARER_TOKEN;                                                         unset BEARER_TOKEN_FILE; "

UnsetX509 == "unset X509_USER_PROXY; "

\* authmethod=None
NoAuth == "<None>"

\* GFAL2Impl.__init__(stagein)
GFAL2Impl(stagein) ==
    [ stageIn |-> stagein,
      setups |-> SetupsPlain,
      removeCommand |-> format(SetupsPlain, <<StartupEnv, "date; ", "gfal-rm -t 600 ", "{}">>),
      copyOpts |-> CopyOpts,
      copyCommand |-> format(SetupsPlain, <<StartupEnv, "date; ", "gfal-copy ">> \o CopyOpts) ]

\* adjustSetup whose last branch resets self.setups and leaves the commands
adjustSetupKeepsCommands(self, authmethod, forcemethod) ==
    IF authmethod = "X509"
      THEN IF forcemethod
             THEN [self EXCEPT
                     !.setups = SetupsX509,
                     !.copyCommand = format(SetupsX509,
                         <<StartupEnv, UnsetTokenCopy, "date; ", "gfal-copy ">> \o self.copyOpts),
                     !.removeCommand = format(SetupsX509,
                         <<StartupEnv, UnsetTokenRemove, "date; ", "gfal-rm -t 600 ", "{}">>)]
           ELSE [self EXCEPT
                     !.setups = SetupsX509,
                     !.copyCommand = format(SetupsX509,
                         <<StartupEnv, "date; ", "gfal-copy ">> \o self.copyOpts),
                     !.removeCommand = format(SetupsX509,
                         <<StartupEnv, "date; ", "gfal-rm -t 600 ", "{}">>)]
    ELSE IF authmethod = "TOKEN"
      THEN IF forcemethod
             THEN [self EXCEPT
                     !.setups = SetupsToken,
                     !.copyCommand = format(SetupsToken,
                         <<StartupEnv, UnsetX509, "date; ", "gfal-copy ">> \o self.copyOpts),
                     !.removeCommand = format(SetupsToken,
                         <<StartupEnv, UnsetX509, "date; ", "gfal-rm -t 600", "{}">>)]
           ELSE [self EXCEPT
                     !.setups = SetupsToken,
                     !.copyCommand = format(SetupsToken,
                         <<StartupEnv, "date; ", "gfal-copy ">> \o self.copyOpts),
                     !.removeCommand = format(SetupsToken,
                         <<StartupEnv, "date; ", "gfal-rm -t 600 ", "{}">>)]
    ELSE [self EXCEPT !.setups = SetupsPlain]

\* GFAL2Impl.adjustSetup(authmethod, forcemethod): the object it leaves
adjustSetup(self, authmethod, forcemethod) ==
    IF authmethod = "X509"
      THEN IF forcemethod
             THEN [self EXCEPT
                     !.setups = SetupsX509,
                     !.copyCommand = format(SetupsX509,
                         <<StartupEnv, UnsetTokenCopy, "date; ", "gfal-copy ">> \o self.copyOpts),
                     !.removeCommand = format(SetupsX509,
                         <<StartupEnv, UnsetTokenRemove, "date; ", "gfal-rm -t 600 ", "{}">>)]
           ELSE [self EXCEPT
                     !.setups = SetupsX509,
                     !.copyCommand = format(SetupsX509,
                         <<StartupEnv, "date; ", "gfal-copy ">> \o self.copyOpts),
                     !.removeCommand = format(SetupsX509,
                         <<StartupEnv, "date; ", "gfal-rm -t 600 ", "{}">>)]
    ELSE IF authmethod = "TOKEN"
      THEN IF forcemethod
             THEN [self EXCEPT
                     !.setups = SetupsToken,
                     !.copyCommand = format(SetupsToken,
                         <<StartupEnv, UnsetX509, "date; ", "gfal-copy ">> \o self.copyOpts),
                     !.removeCommand = format(SetupsToken,
                         <<StartupEnv, UnsetX509, "date; ", "gfal-rm -t 600", "{}">>)]
           ELSE [self EXCEPT
                     !.setups = SetupsToken,
                     !.copyCommand = format(SetupsToken,
                         <<StartupEnv, "date; ", "gfal-copy ">> \o self.copyOpts),
                     !.removeCommand = format(SetupsToken,
                         <<StartupEnv, "date; ", "gfal-rm -t 600 ", "{}">>)]
    ELSE [self EXCEPT
            !.setups = SetupsPlain,
            !.copyCommand = format(SetupsPlain,
                <<StartupEnv, "date; ", "gfal-copy ">> \o self.copyOpts),
            !.removeCommand = format(SetupsPlain,
                <<StartupEnv, "date; ", "gfal-rm -t 600 ", "{}">>)]

(* ------------------------------- inputs ------------------------------- *)

NameA == PyStr("/A/B/C")

NameD == PyStr("/D/E/F")

\* the documents callers pass to createPileup
Candidates ==
    { [ pileupName |-> NameA, pileupType |-> PyStr("classic"),
        replicationGrouping |-> PyStr("DATASET"), containerFraction |-> PyFloat(5),
        expectedRSEs |-> PyList(<<"Disk1">>), currentRSEs |-> PyList(<<>>) ],
      [ pileupName |-> NameA, pileupType |-> PyStr("premix"),
        replicationGrouping |-> PyStr("ALL"), lastUpdateTime |-> PyInt(7) ],
      [ pileupName |-> NameA, pileupType |-> PyStr("bad"),
        replicationGrouping |-> PyStr("ALL") ],
      [ pileupName |-> NameD, pileupType |-> PyStr("classic"),
        replicationGrouping |-> PyStr("ALL") ] }

\* the documents callers pass to updatePileup
UpdateDocs ==
    { [ pileupName |-> NameA, insertTime |-> PyInt(9), lastUpdateTime |-> PyInt(0),
        active |-> PyBool(TRUE) ],
      [ pileupName |-> NameA, active |-> PyBool(FALSE), comment |-> PyStr("x") ],
      [ pileupName |-> PyStr(""), active |-> PyBool(TRUE) ],
      [ active |-> PyBool(TRUE) ] }

\* the query specs callers pass to getPileup and deletePileup
QuerySpecs == { [pileupName |-> NameA], [pileupName |-> NameD], EmptyDict }

\* the projections callers pass to getPileup
Projections == { NoProjection, [given |-> TRUE, keys |-> {"pileupName"}] }

\* a document that has every schema key and passes validation
BaseDoc ==
    [ pileupName |-> NameA, pileupType |-> PyStr("classic"),
      insertTime |-> PyInt(0), lastUpdateTime |-> PyInt(0),
      expectedRSEs |-> PyList(<<>>), currentRSEs |-> PyList(<<>>),
      fullReplicas |-> PyInt(1), campaigns |-> PyList(<<>>),
      containerFraction |-> PyFloat(5), replicationGrouping |-> PyStr("ALL"),
      activatedOn |-> PyInt(0), deactivatedOn |-> PyInt(0),
      active |-> PyBool(FALSE), pileupSize |-> PyInt(0),
      ruleList |-> PyList(<<>>) ]

StrValues ==
    { PyStr(v) : v \in {"", "classic", "premix", "bad", "DATASET", "ALL",
                        "/A/B/C", "/A/B"} }

IntValues == { PyInt(v) : v \in {-1, 0, 1, 2} }

\* floats in tenths: -0.1, 0.0, 0.1, 0.5, 0.9, 1.0, 1.1
FloatValues == { PyFloat(v) : v \in {-1, 0, 1, 5, 9, 10, 11} }

BoolValues == { PyBool(v) : v \in BOOLEAN }

ListValues ==
    { PyList(v) : v \in { <<>>, <<"Disk1">>, <<"Disk1", "Disk2">>,
                          <<"Disk2", "Disk1">>, <<"Disk3">>, <<"Disk1", "Disk3">> } }

\* the values a caller puts under a key of a document
Values == StrValues \cup IntValues \cup FloatValues \cup BoolValues \cup ListValues

\* the dict d without key
Drop(d, key) == [k \in DOMAIN d \ {key} |-> d[k]]

\* documents whose key set is not the schema's: a key missing, a key too
\* many, one key in place of another, no key at all
KeySetDocs ==
    { Drop(BaseDoc, k) : k \in DOMAIN BaseDoc }
      \cup { Put(BaseDoc, "comment", PyStr("x")), EmptyDict }
      \cup { Put(Drop(BaseDoc, k), "comment", PyStr("x")) : k \in {"active", "pileupName"} }

\* BaseDoc with one key given another value
OneChange == { Put(BaseDoc, k, v) : k \in DOMAIN BaseDoc, v \in Values }

\* the keys validation has a domain rule for
DomainKeys ==
    { "pileupName", "pileupType", "replicationGrouping", "containerFraction",
      "expectedRSEs", "currentRSEs" }

\* the values of the declared type of key k
TypedValues(k) ==
    CASE schema[k][2] = "str" -> StrValues
      [] schema[k][2] = "int" -> IntValues
      [] schema[k][2] = "float" -> FloatValues
      [] schema[k][2] = "bool" -> BoolValues
      [] schema[k][2] = "list" -> ListValues

\* BaseDoc with a key that has a domain rule given a value of its type, and
\* any key given any value
TwoChanges ==
    { Put(Put(BaseDoc, k1, v1), k2, v2) :
        <<k1, v1>> \in UNION { {k} \X TypedValues(k) : k \in DomainKeys },
        <<k2, v2>> \in (DOMAIN BaseDoc) \X Values }

\* the documents callers construct an MSPileupObj from
ObjDocs == KeySetDocs \cup OneChange \cup TwoChanges

\* the documents callers pass to validate of an MSPileupObj they hold
ValidateDocs ==
    KeySetDocs \cup {BaseDoc, Put(Drop(BaseDoc, "active"), "pileupType", PyInt(1))}

\* the validRSEs arguments callers construct an MSPileupObj with
RSEConfigs == { NoRSEs, [given |-> TRUE, rses |-> <<>>], [given |-> TRUE, rses |-> validRSEs] }

\* the authmethod arguments callers pass: None, the two methods, another string
AuthMethods == {NoAuth, "X509", "TOKEN", "KRB5"}

\* a path of the local file system, which may or may not be a file there
LocalPFN == <<"/store/user/f.root">>

\* the PFNs callers pass as source
SourcePFNs == {LocalPFN, <<"file:", "/tmp/f.root">>}

\* the PFNs callers pass as target
TargetPFNs == {LocalPFN, <<"davs://host:1094", "/store/user/f.root">>}

\* the options callers pass, word by word (none: None or the empty string)
CopyOptions == {<<>>, <<"--nochecksum", "--verbose">>}

\* the checksums argument: None
NoChecksums == [k \in {} |-> ""]

\* the checksums callers pass
Checksums == {NoChecksums, [adler32 |-> "abc"]}

(* ------------------------ GFAL2Impl's commands ------------------------- *)

\* pfn.startswith('file:')
IsFileURL(pfn) == Head(pfn) = "file:"

\* pfn.startswith('/')
IsAbsolute(pfn) == pfn = LocalPFN

\* createFinalPFN(pfn), files being the PFNs os.path.isfile holds of; the
\* abspath of an absolute path is the path
createFinalPFN(pfn, files) ==
    IF IsFileURL(pfn) THEN pfn
    ELSE IF pfn \in files THEN <<"file://">> \o pfn
    ELSE IF IsAbsolute(pfn) THEN <<"file://">> \o pfn
    ELSE pfn

\* createRemoveFileCommand(pfn)
createRemoveFileCommand(self, pfn, files) ==
    IF pfn \in files THEN <<"/bin/rm -f ">> \o pfn
    ELSE format(self.removeCommand, createFinalPFN(pfn, files))

\* "{:08x}".format(int(value, 16))
Hex8(value) == CASE value = "abc" -> "00000abc"

\* ' '.join(words)
RECURSIVE JoinWords(_)
JoinWords(words) ==
    IF words = <<>> THEN <<>>
    ELSE IF Len(words) = 1 THEN words
    ELSE <<Head(words), " ">> \o JoinWords(Tail(words))

\* buildCopyCommandDict(sourcePFN, targetPFN, options, checksums)
buildCopyCommandDict(self, sourcePFN, targetPFN, options, checksums, files) ==
    LET useChecksum == "adler32" \in DOMAIN checksums /\ ~self.stageIn
        nochecksum == "--nochecksum" \in Range(options)
        unknown == SelectSeq(options, LAMBDA w : w # "--nochecksum")
    IN  [ checksum |-> IF nochecksum THEN <<>>
                       ELSE IF useChecksum
                         THEN <<"-K adler32:", Hex8(checksums["adler32"])>>
                       ELSE <<"-K adler32">>,
          options |-> JoinWords(unknown),
          source |-> createFinalPFN(sourcePFN, files),
          destination |-> createFinalPFN(targetPFN, files) ]

\* createStageOutCommand(...): the object it leaves and the script it returns
createStageOutCommand(self, sourcePFN, targetPFN, options, checksums, authmethod, forcemethod, files) ==
    LET adjusted == adjustSetup(self, authmethod, forcemethod)
        copyCommandDict ==
            buildCopyCommandDict(adjusted, sourcePFN, targetPFN, options, checksums, files)
        copyCommand == format_map(adjusted.copyCommand, copyCommandDict)
    IN  [ self |-> adjusted,
          result |-> <<"#!/bin/bash\n">> \o copyCommand
                       \o <<"EXIT_STATUS=$?; on failure: ">>
                       \o createRemoveFileCommand(adjusted, targetPFN, files)
                       \o <<"exit $EXIT_STATUS">> ]

\* createDebuggingCommand(...): the object it leaves and the script it returns
createDebuggingCommand(self, sourcePFN, targetPFN, options, checksums, authmethod, forcemethod, files) ==
    LET adjusted == adjustSetup(self, authmethod, forcemethod)
        copyCommandDict ==
            buildCopyCommandDict(adjusted, sourcePFN, targetPFN, options, checksums, files)
        copyCommand == format_map(adjusted.copyCommand, copyCommandDict)
    IN  [ self |-> adjusted,
          result |-> <<"#!/bin/bash\n", "gfal-copy command which failed: ">>
                       \o copyCommand
                       \o <<"Source PFN: ">> \o copyCommandDict.source
                       \o <<"Target PFN: ">> \o copyCommandDict.destination
                       \o <<"voms-proxy-info -all">> ]

(* -------------------------------- state ------------------------------- *)

VARIABLES
    store,       \* self.dbColl: the documents of the collection, in store order
    inserted,    \* how many documents the store has taken
    now,         \* the wall clock gmtimeSeconds() reads
    calls,       \* how many calls have been made
    pc,          \* where each caller is in its call
    op,          \* the operation each caller called
    arg,         \* its argument: pdict, doc or spec
    projection,  \* getPileup's projection argument
    doc,         \* createPileup's validated doc, updatePileup's stamped doc
    results,     \* the documents getPileup returned to the caller
    res,         \* what the call returned: a list of errors, or an exception
    fault,       \* history: the store failed the call (not a duplicate key)
    freeAtCall,  \* history: no record had the call's pileupName when it was made
    disturbed,   \* history: what other calls did to that pileupName since
    matched,     \* history: how many records matched the spec when update_one or
                 \* delete_one ran
    vpc,         \* where the user of an MSPileupObj is: idle, constructed, validated
    objArg,      \* the pdict given to MSPileupObj(pdict, validRSEs)
    objRSEs,     \* the validRSEs argument given with it
    pileupObj,   \* the outcome of that construction
    valArg,      \* the pdict given to obj.validate(pdict)
    valRes,      \* what that validate call returned
    gfal,        \* the GFAL2Impl object: stageIn, setups, removeCommand, copyOpts,
                 \* copyCommand
    gfalCalls,   \* how many calls have been made to it
    lastCall,    \* history: the method last called, its authmethod and forcemethod
    command      \* the command string the last call returned

\* the state of the registry
regVars == << store, inserted, now, calls, pc, op, arg, projection, doc, results,
              res, fault, freeAtCall, disturbed, matched >>

\* the state of one MSPileupObj and its user
objVars == << vpc, objArg, objRSEs, pileupObj, valArg, valRes >>

\* the state of one GFAL2Impl and its user
gfalVars == << gfal, gfalCalls, lastCall, command >>

vars == << regVars, objVars, gfalVars >>

\* no GFAL2Impl object constructed yet
NoGfal ==
    [ stageIn |-> FALSE, setups |-> <<>>, removeCommand |-> <<>>,
      copyOpts |-> <<>>, copyCommand |-> <<>> ]

\* what lastCall holds for the call of method m
Call(m, authmethod, forcemethod) ==
    [method |-> m, authmethod |-> authmethod, forcemethod |-> forcemethod]

\* before the construction of the GFAL2Impl object
GfalInit ==
    /\ gfal = NoGfal
    /\ gfalCalls = 0
    /\ lastCall = Call("none", NoAuth, FALSE)
    /\ command = <<>>

Pending == [out |-> "pending", errs |-> <<>>]

\* the call returned the list errs
Returned(errs) == [out |-> "returned", errs |-> errs]

\* an exception left the call
Raised == [out |-> "raised", errs |-> <<>>]

\* the pileupName of caller p's argument
CallName(p) == Get(arg[p], "pileupName", PyStr(""))

\* the stored documents named n
Named(coll, n) == {i \in DOMAIN coll : coll[i]["pileupName"] = n}

Init ==
    /\ store = <<>>
    /\ inserted = 0
    /\ now = 0
    /\ calls = 0
    /\ pc = [p \in Procs |-> "idle"]
    /\ op = [p \in Procs |-> "none"]
    /\ arg = [p \in Procs |-> EmptyDict]
    /\ projection = [p \in Procs |-> NoProjection]
    /\ doc = [p \in Procs |-> EmptyDict]
    /\ results = [p \in Procs |-> <<>>]
    /\ res = [p \in Procs |-> Pending]
    /\ fault = [p \in Procs |-> FALSE]
    /\ freeAtCall = [p \in Procs |-> FALSE]
    /\ disturbed = [p \in Procs |-> "none"]
    /\ matched = [p \in Procs |-> 0]
    /\ vpc = "idle"
    /\ objArg = EmptyDict
    /\ objRSEs = NoRSEs
    /\ pileupObj = NoObj
    /\ valArg = EmptyDict
    /\ valRes = <<FALSE, NoMsg>>
    /\ GfalInit

\* caller p enters operation o with argument a and projection pr
Enter(p, o, a, pr) ==
    /\ pc[p] \in {"idle", "done"}
    /\ calls < MaxCalls
    /\ calls' = calls + 1
    /\ pc' = [pc EXCEPT ![p] = o]
    /\ op' = [op EXCEPT ![p] = o]
    /\ arg' = [arg EXCEPT ![p] = a]
    /\ projection' = [projection EXCEPT ![p] = pr]
    /\ doc' = [doc EXCEPT ![p] = EmptyDict]
    /\ results' = [results EXCEPT ![p] = <<>>]
    /\ res' = [res EXCEPT ![p] = Pending]
    /\ fault' = [fault EXCEPT ![p] = FALSE]
    /\ freeAtCall' = [freeAtCall EXCEPT ![p] =
                         Named(store, Get(a, "pileupName", PyStr(""))) = {}]
    /\ disturbed' = [disturbed EXCEPT ![p] = "none"]
    /\ matched' = [matched EXCEPT ![p] = 0]
    /\ UNCHANGED << objVars, gfalVars, store, inserted, now >>

CallCreate(p) == \E c \in Candidates : Enter(p, "create", c, NoProjection)

CallUpdate(p) == \E u \in UpdateDocs : Enter(p, "update", u, NoProjection)

CallRead(p) == \E s \in QuerySpecs : \E pr \in Projections : Enter(p, "read", s, pr)

CallDelete(p) == \E s \in QuerySpecs : Enter(p, "delete", s, NoProjection)

\* the clock advances
Tick ==
    /\ now < MaxTime
    /\ now' = now + 1
    /\ UNCHANGED << objVars, gfalVars, matched, store, inserted, calls, pc, op, arg, projection, doc,
                    results, res, fault, freeAtCall, disturbed >>

\* history only, no code of the registry: what each caller's pileupName has
\* undergone once the store changes from store to coll;
\* a name whose record is gone was removed, one whose record differs was updated
Disturb(coll) ==
    [q \in Procs |->
        IF Named(store, CallName(q)) # {} /\ Named(coll, CallName(q)) = {}
          THEN "removed"
        ELSE IF disturbed[q] = "none"
                /\ \E i \in Named(store, CallName(q)) : \A j \in DOMAIN coll : coll[j] # store[i]
          THEN "updated"
        ELSE disturbed[q]]

(* ----------------------------- MSPileupData ---------------------------- *)

\* how a store call that changes the collection ends, the unique index aside
StoreOutcomes == {"ok", "OtherFailure"}

\* stripKeys that pops nothing
stripKeysNothing(docs, skeys) == docs

\* stripKeys(docs, skeys) for a dict docs
stripKeys(docs, skeys) == [k \in (DOMAIN docs) \ skeys |-> docs[k]]

\* MSPileupData.getPileup(spec, projection)
getPileup(coll, spec, proj) ==
    LET found == find(coll, spec, proj)
    IN  [i \in DOMAIN found |-> stripKeys(found[i], {"_id"})]

\* createPileup, the except branch of the construction of MSPileupObj
createPileupInvalid(pdict, msg) ==
    << MSPileupDuplicateDocumentError(pdict, <<"Failed to create MSPileupObj">> \o msg) >>

\* the insert with DuplicateKeyError swallowed instead of reported
createPileupInsertSwallow(coll, d, n, outcome) ==
    IF outcome = "OtherFailure" THEN [coll |-> coll, res |-> Raised]
    ELSE [coll |-> insert_one(coll, d, n), res |-> Returned(<<>>)]

\* the insert that replaces the stored document on a duplicate key
createPileupInsertReplace(coll, d, n, outcome) ==
    LET withId == Put(d, "_id", ObjectId(n))
    IN  IF outcome = "OtherFailure"
          THEN [coll |-> coll, res |-> Raised]
        ELSE IF DuplicateKey(coll, withId)
          THEN [coll |-> update_one(coll, [pileupName |-> d["pileupName"]], d),
                res |-> Returned(<< MSPileupDuplicateDocumentError(
                            withId, <<"Failed to insert, it already exist in DB">>) >>)]
        ELSE [coll |-> insert_one(coll, d, n), res |-> Returned(<<>>)]

\* createPileup, the insert into the underlying DB: insert_one gives d a fresh
\* _id before it sends it, and only DuplicateKeyError is caught
createPileupInsert(coll, d, n, outcome) ==
    LET withId == Put(d, "_id", ObjectId(n))
    IN  IF outcome = "OtherFailure"
          THEN [coll |-> coll, res |-> Raised]
        ELSE IF DuplicateKey(coll, withId)
          THEN [coll |-> coll,
                res |-> Returned(<< MSPileupDuplicateDocumentError(
                            withId, <<"Failed to insert, it already exist in DB">>) >>)]
        ELSE [coll |-> insert_one(coll, d, n), res |-> Returned(<<>>)]

\* the stamp forgotten: the caller's fields go to the store as passed
stampedDocNot(d, t) == d

\* updatePileup, doc['lastUpdateTime'] = gmtimeSeconds()
stampedDoc(d, t) == Put(d, "lastUpdateTime", PyInt(t))

\* the look-up without the check that a document was found
updatePileupLookupNoCheck(coll, d, t) ==
    LET pname == Get(d, "pileupName", PyStr(""))
        spec == [pileupName |-> pname]
        found == getPileup(coll, spec, NoProjection)
    IN  IF ~Truthy(pname)
          THEN [next |-> "done", doc |-> d, results |-> <<>>,
                res |-> Returned(<< MSPileupNoKeyFoundError(d, <<"No document found for", pname>>) >>)]
        ELSE [next |-> "write", doc |-> stampedDoc(d, t), results |-> found, res |-> Pending]

\* the look-up that is content with any number of documents found but none
updatePileupLookupAnyFound(coll, d, t) ==
    LET pname == Get(d, "pileupName", PyStr(""))
        spec == [pileupName |-> pname]
        found == getPileup(coll, spec, NoProjection)
    IN  IF ~Truthy(pname)
          THEN [next |-> "done", doc |-> d, results |-> <<>>,
                res |-> Returned(<< MSPileupNoKeyFoundError(d, <<"No document found for", pname>>) >>)]
        ELSE IF found = <<>>
          THEN [next |-> "done", doc |-> d, results |-> found,
                res |-> Returned(<< MSPileupNoKeyFoundError(spec, <<"No document found for query">>) >>)]
        ELSE [next |-> "write", doc |-> stampedDoc(d, t), results |-> found, res |-> Pending]

\* updatePileup up to the stamp of lastUpdateTime: the key check, the look-up
\* and the check of the number of documents found
updatePileupLookup(coll, d, t) ==
    LET pname == Get(d, "pileupName", PyStr(""))
        spec == [pileupName |-> pname]
        found == getPileup(coll, spec, NoProjection)
    IN  IF ~Truthy(pname)
          THEN [next |-> "done", doc |-> d, results |-> <<>>,
                res |-> Returned(<< MSPileupNoKeyFoundError(d, <<"No document found for", pname>>) >>)]
        ELSE IF found = <<>>
          THEN [next |-> "done", doc |-> d, results |-> found,
                res |-> Returned(<< MSPileupNoKeyFoundError(spec, <<"No document found for query">>) >>)]
        ELSE IF Len(found) # 1
          THEN [next |-> "done", doc |-> d, results |-> found,
                res |-> Returned(<< MSPileupUniqueConstrainError(spec, <<"Unique constrain violated for", pname>>) >>)]
        ELSE [next |-> "write", doc |-> stampedDoc(d, t), results |-> found, res |-> Pending]

\* the write that replaces the whole stored document by the caller's fields
updatePileupWriteReplace(coll, d, outcome) ==
    LET spec == [pileupName |-> d["pileupName"]]
        i == FirstMatch(coll, spec)
    IN  IF outcome = "OtherFailure"
          THEN [coll |-> coll,
                res |-> Returned(<< MSPileupDatabaseError(d, <<"Failed to insert">>) >>)]
        ELSE [coll |-> IF i = 0 THEN coll
                       ELSE [coll EXCEPT ![i] = Put(d, "_id", coll[i]["_id"])],
              res |-> Returned(<<>>)]

\* the write that sends the query spec in place of the caller's fields
updatePileupWriteSpec(coll, d, outcome) ==
    LET spec == [pileupName |-> d["pileupName"]]
    IN  IF outcome = "OtherFailure"
          THEN [coll |-> coll,
                res |-> Returned(<< MSPileupDatabaseError(d, <<"Failed to insert">>) >>)]
        ELSE [coll |-> update_one(coll, spec, spec), res |-> Returned(<<>>)]

\* the write that validates the document the fields would give, and refuses
\* to write one that is invalid
updatePileupWriteValidated(coll, d, outcome) ==
    LET spec == [pileupName |-> d["pileupName"]]
        i == FirstMatch(coll, spec)
    IN  IF outcome = "OtherFailure"
          THEN [coll |-> coll,
                res |-> Returned(<< MSPileupDatabaseError(d, <<"Failed to insert">>) >>)]
        ELSE IF i # 0 /\ ~validate(Drop(SetFields(coll[i], d), "_id"), validRSEs)[1]
          THEN [coll |-> coll,
                res |-> Returned(<< MSPileupDatabaseError(d, <<"Failed to insert">>) >>)]
        ELSE [coll |-> update_one(coll, spec, d), res |-> Returned(<<>>)]

\* the write with upsert: the fields become a new document when none matches
updatePileupWriteUpsert(coll, d, outcome) ==
    LET spec == [pileupName |-> d["pileupName"]]
    IN  IF outcome = "OtherFailure"
          THEN [coll |-> coll,
                res |-> Returned(<< MSPileupDatabaseError(d, <<"Failed to insert">>) >>)]
        ELSE IF FirstMatch(coll, spec) = 0
          THEN [coll |-> Append(coll, d), res |-> Returned(<<>>)]
        ELSE [coll |-> update_one(coll, spec, d), res |-> Returned(<<>>)]

\* updatePileup, the update_one call and its except branch
updatePileupWrite(coll, d, outcome) ==
    LET spec == [pileupName |-> d["pileupName"]]
    IN  IF outcome = "OtherFailure"
          THEN [coll |-> coll,
                res |-> Returned(<< MSPileupDatabaseError(d, <<"Failed to insert">>) >>)]
        ELSE [coll |-> update_one(coll, spec, d), res |-> Returned(<<>>)]

\* deletePileup that reports a delete that removed nothing
deletePileupMissingIsError(coll, spec, outcome) ==
    IF outcome = "OtherFailure"
      THEN [coll |-> coll,
            res |-> Returned(<< MSPileupDatabaseError(spec, <<"Unable to delete with spec">>) >>)]
    ELSE IF FirstMatch(coll, spec) = 0
      THEN [coll |-> coll,
            res |-> Returned(<< MSPileupNoKeyFoundError(spec, <<"No document found for query">>) >>)]
    ELSE [coll |-> delete_one(coll, spec), res |-> Returned(<<>>)]

\* deletePileup that removes every document matching spec
deletePileupMany(coll, spec, outcome) ==
    IF outcome = "OtherFailure"
      THEN [coll |-> coll,
            res |-> Returned(<< MSPileupDatabaseError(spec, <<"Unable to delete with spec">>) >>)]
    ELSE [coll |-> SelectSeq(coll, LAMBDA d : ~Matches(d, spec)), res |-> Returned(<<>>)]

\* MSPileupData.deletePileup(spec)
deletePileup(coll, spec, outcome) ==
    IF outcome = "OtherFailure"
      THEN [coll |-> coll,
            res |-> Returned(<< MSPileupDatabaseError(spec, <<"Unable to delete with spec">>) >>)]
    ELSE [coll |-> delete_one(coll, spec), res |-> Returned(<<>>)]

(* ------------------------------- actions ------------------------------ *)

\* createPileup: MSPileupObj(pdict, validRSEs=self.validRSEs)
CreateValidate(p) ==
    /\ pc[p] = "create"
    /\ LET obj == MSPileupObj(arg[p], validRSEs, now)
       IN  IF obj.ok
             THEN /\ doc' = [doc EXCEPT ![p] = obj.data]
                  /\ pc' = [pc EXCEPT ![p] = "insert"]
                  /\ res' = res
             ELSE /\ doc' = doc
                  /\ pc' = [pc EXCEPT ![p] = "done"]
                  /\ res' = [res EXCEPT ![p] = Returned(createPileupInvalid(arg[p], obj.msg))]
    /\ UNCHANGED << objVars, gfalVars, matched, store, inserted, now, calls, op, arg, projection, results,
                    fault, freeAtCall, disturbed >>

\* createPileup: self.dbColl.insert_one(doc)
CreateInsert(p) ==
    /\ pc[p] = "insert"
    /\ \E outcome \in StoreOutcomes :
         LET r == createPileupInsert(store, doc[p], inserted + 1, outcome)
         IN  /\ store' = r.coll
             /\ res' = [res EXCEPT ![p] = r.res]
             /\ disturbed' = Disturb(r.coll)
             /\ fault' = [fault EXCEPT ![p] = outcome = "OtherFailure"]
             /\ inserted' = IF r.coll = store THEN inserted ELSE inserted + 1
    /\ pc' = [pc EXCEPT ![p] = "done"]
    /\ UNCHANGED << objVars, gfalVars, matched, now, calls, op, arg, projection, doc, results, freeAtCall >>

\* updatePileup: the look-up of the document and the stamp
UpdateLookup(p) ==
    /\ pc[p] = "update"
    /\ LET r == updatePileupLookup(store, arg[p], now)
       IN  /\ pc' = [pc EXCEPT ![p] = r.next]
           /\ doc' = [doc EXCEPT ![p] = r.doc]
           /\ results' = [results EXCEPT ![p] = r.results]
           /\ res' = [res EXCEPT ![p] = r.res]
    /\ UNCHANGED << objVars, gfalVars, matched, store, inserted, now, calls, op, arg, projection,
                    fault, freeAtCall, disturbed >>

\* updatePileup: self.dbColl.update_one(spec, {"$set": doc})
UpdateWrite(p) ==
    /\ pc[p] = "write"
    /\ \E outcome \in StoreOutcomes :
         LET r == updatePileupWrite(store, doc[p], outcome)
         IN  /\ store' = r.coll
             /\ res' = [res EXCEPT ![p] = r.res]
             /\ disturbed' = Disturb(r.coll)
             /\ fault' = [fault EXCEPT ![p] = outcome = "OtherFailure"]
             /\ matched' = [matched EXCEPT ![p] =
                    Cardinality(MatchingAt(store, [pileupName |-> doc[p]["pileupName"]]))]
    /\ pc' = [pc EXCEPT ![p] = "done"]
    /\ UNCHANGED << objVars, gfalVars, inserted, now, calls, op, arg, projection, doc, results,
                    freeAtCall >>

\* getPileup
Read(p) ==
    /\ pc[p] = "read"
    /\ results' = [results EXCEPT ![p] = getPileup(store, arg[p], projection[p])]
    /\ res' = [res EXCEPT ![p] = Returned(<<>>)]
    /\ pc' = [pc EXCEPT ![p] = "done"]
    /\ UNCHANGED << objVars, gfalVars, matched, store, inserted, now, calls, op, arg, projection, doc,
                    fault, freeAtCall, disturbed >>

\* deletePileup
Delete(p) ==
    /\ pc[p] = "delete"
    /\ \E outcome \in StoreOutcomes :
         LET r == deletePileup(store, arg[p], outcome)
         IN  /\ store' = r.coll
             /\ res' = [res EXCEPT ![p] = r.res]
             /\ disturbed' = Disturb(r.coll)
             /\ fault' = [fault EXCEPT ![p] = outcome = "OtherFailure"]
             /\ matched' = [matched EXCEPT ![p] = Cardinality(MatchingAt(store, arg[p]))]
    /\ pc' = [pc EXCEPT ![p] = "done"]
    /\ UNCHANGED << objVars, gfalVars, inserted, now, calls, op, arg, projection, doc, results,
                    freeAtCall >>

Next ==
    \/ Tick
    \/ \E p \in Procs :
         \/ CallCreate(p)
         \/ CallUpdate(p)
         \/ CallRead(p)
         \/ CallDelete(p)
         \/ CreateValidate(p)
         \/ CreateInsert(p)
         \/ UpdateLookup(p)
         \/ UpdateWrite(p)
         \/ Read(p)
         \/ Delete(p)

Spec == Init /\ [][Next]_vars

(* --------------------- one MSPileupObj and its user -------------------- *)

\* pileupObj = MSPileupObj(pdict, validRSEs=...)
Construct ==
    /\ vpc = "idle"
    /\ \E d \in ObjDocs : \E c \in RSEConfigs :
         /\ objArg' = d
         /\ objRSEs' = c
         /\ pileupObj' = MSPileupObj(d, initRSEs(c), now)
    /\ vpc' = "constructed"
    /\ UNCHANGED << regVars, gfalVars, valArg, valRes >>

\* pileupObj.validate(pdict) on an object whose construction did not raise
Validate ==
    /\ vpc = "constructed"
    /\ pileupObj.ok
    /\ \E d \in ValidateDocs :
         /\ valArg' = d
         /\ valRes' = validateSelf([data |-> pileupObj.data, validRSEs |-> initRSEs(objRSEs)], d)
    /\ vpc' = "validated"
    /\ UNCHANGED << regVars, gfalVars, objArg, objRSEs, pileupObj >>

ObjNext == Construct \/ Validate

ObjSpec == Init /\ [][ObjNext]_vars

(* ------------- the registry over a store with a broken index ---------- *)

\* a collection whose unique index failed: two documents named /A/B/C
DupStore ==
    << Put(BaseDoc, "_id", ObjectId(1)),
       Put(Put(BaseDoc, "pileupType", PyStr("premix")), "_id", ObjectId(2)) >>

DupInit ==
    /\ store = DupStore
    /\ inserted = Len(DupStore)
    /\ now = 0
    /\ calls = 0
    /\ pc = [p \in Procs |-> "idle"]
    /\ op = [p \in Procs |-> "none"]
    /\ arg = [p \in Procs |-> EmptyDict]
    /\ projection = [p \in Procs |-> NoProjection]
    /\ doc = [p \in Procs |-> EmptyDict]
    /\ results = [p \in Procs |-> <<>>]
    /\ res = [p \in Procs |-> Pending]
    /\ fault = [p \in Procs |-> FALSE]
    /\ freeAtCall = [p \in Procs |-> FALSE]
    /\ disturbed = [p \in Procs |-> "none"]
    /\ matched = [p \in Procs |-> 0]
    /\ vpc = "idle"
    /\ objArg = EmptyDict
    /\ objRSEs = NoRSEs
    /\ pileupObj = NoObj
    /\ valArg = EmptyDict
    /\ valRes = <<FALSE, NoMsg>>
    /\ GfalInit

\* updates and deletes of the documents of that collection
DupNext ==
    \/ Tick
    \/ \E p \in Procs :
         \/ CallUpdate(p)
         \/ CallDelete(p)
         \/ UpdateLookup(p)
         \/ UpdateWrite(p)
         \/ Delete(p)

DupSpec == DupInit /\ [][DupNext]_vars

(* ---------------------- one GFAL2Impl and its user -------------------- *)

\* gfal = GFAL2Impl(stagein)
GfalConstruct ==
    /\ lastCall.method = "none"
    /\ \E stagein \in BOOLEAN : gfal' = GFAL2Impl(stagein)
    /\ lastCall' = Call("__init__", NoAuth, FALSE)
    /\ UNCHANGED << regVars, objVars, gfalCalls, command >>

\* the object is constructed and may be called once more
GfalReady == lastCall.method # "none" /\ gfalCalls < MaxGfalCalls

\* gfal.adjustSetup(authmethod, forcemethod)
AdjustSetup ==
    /\ GfalReady
    /\ \E a \in AuthMethods : \E f \in BOOLEAN :
         /\ gfal' = adjustSetup(gfal, a, f)
         /\ lastCall' = Call("adjustSetup", a, f)
    /\ gfalCalls' = gfalCalls + 1
    /\ UNCHANGED << regVars, objVars, command >>

\* gfal.createStageOutCommand(sourcePFN, targetPFN, options, checksums,
\* authmethod, forcemethod)
CreateStageOutCommand ==
    /\ GfalReady
    /\ \E a \in AuthMethods : \E f \in BOOLEAN :
       \E src \in SourcePFNs : \E tgt \in TargetPFNs :
       \E o \in CopyOptions : \E c \in Checksums : \E files \in SUBSET {LocalPFN} :
         LET r == createStageOutCommand(gfal, src, tgt, o, c, a, f, files)
         IN  /\ gfal' = r.self
             /\ command' = r.result
             /\ lastCall' = Call("createStageOutCommand", a, f)
    /\ gfalCalls' = gfalCalls + 1
    /\ UNCHANGED << regVars, objVars >>

\* gfal.createDebuggingCommand(sourcePFN, targetPFN, options, checksums,
\* authmethod, forcemethod)
CreateDebuggingCommand ==
    /\ GfalReady
    /\ \E a \in AuthMethods : \E f \in BOOLEAN :
       \E src \in SourcePFNs : \E tgt \in TargetPFNs :
       \E o \in CopyOptions : \E c \in Checksums : \E files \in SUBSET {LocalPFN} :
         LET r == createDebuggingCommand(gfal, src, tgt, o, c, a, f, files)
         IN  /\ gfal' = r.self
             /\ command' = r.result
             /\ lastCall' = Call("createDebuggingCommand", a, f)
    /\ gfalCalls' = gfalCalls + 1
    /\ UNCHANGED << regVars, objVars >>

GfalNext ==
    \/ GfalConstruct
    \/ AdjustSetup
    \/ CreateStageOutCommand
    \/ CreateDebuggingCommand

GfalSpec == Init /\ [][GfalNext]_vars

(* ------------------------------- claims ------------------------------- *)

\* caller p has returned from operation o
Done(p, o) == pc[p] = "done" /\ op[p] = o

\* the result r is the empty error list
Succeeded(r) == r = Returned(<<>>)

\* the result r is a list of exactly one error, of the given kind
OneError(r, kind) ==
    /\ r.out = "returned"
    /\ Len(r.errs) = 1
    /\ r.errs[1].error = kind

\* caller p's createPileup got past validation (its doc is the validated data)
Validated(p) == DOMAIN doc[p] # {}

\* C1: in every reachable state, after any interleaving of create, update and
\* delete calls, the store holds at most one record for each pileupName.
C1_UniquePileupName ==
    \A i \in DOMAIN store : \A j \in DOMAIN store :
        store[i]["pileupName"] = store[j]["pileupName"] => i = j

\* a valid create was refused because its pileupName is stored, while a
\* record of another name is stored too
C1_Witness ==
    /\ Len(store) = 2
    /\ \E p \in Procs :
         /\ Done(p, "create")
         /\ OneError(res[p], "MSPileupDuplicateDocumentError")
         /\ Validated(p)
         /\ Named(store, CallName(p)) # {}

\* C2: two callers that run create concurrently with valid candidates of the
\* same pileupName, none stored when they called and none removed since, and
\* whose inserts the store answered: exactly one returns the empty list, the
\* other one DuplicateDocument error, and exactly one record has that name.
C2_ConcurrentCreates ==
    \A p \in Procs : \A q \in Procs :
        ( /\ p # q
          /\ Done(p, "create") /\ Done(q, "create")
          /\ CallName(p) = CallName(q)
          /\ Validated(p) /\ Validated(q)
          /\ freeAtCall[p] /\ freeAtCall[q]
          /\ disturbed[p] # "removed" /\ disturbed[q] # "removed"
          /\ ~fault[p] /\ ~fault[q] )
        => /\ \/ Succeeded(res[p]) /\ OneError(res[q], "MSPileupDuplicateDocumentError")
              \/ Succeeded(res[q]) /\ OneError(res[p], "MSPileupDuplicateDocumentError")
           /\ Cardinality(Named(store, CallName(p))) = 1

\* both callers raced their creates of one free pileupName and have returned
C2_Witness ==
    \E p \in Procs : \E q \in Procs :
        /\ p # q
        /\ Done(p, "create") /\ Done(q, "create")
        /\ CallName(p) = CallName(q)
        /\ Validated(p) /\ Validated(q)
        /\ freeAtCall[p] /\ freeAtCall[q]
        /\ disturbed[p] # "removed" /\ disturbed[q] # "removed"
        /\ ~fault[p] /\ ~fault[q]
        /\ Succeeded(res[p])
        /\ doc[p] # doc[q]

\* caller q returns from createPileup in this step
CreateReturns(q) == pc[q] \in {"create", "insert"} /\ pc'[q] = "done"

\* a create of pileupName n by another caller than q succeeded, and no record
\* named n has been removed since
CreatedBefore(q, n) ==
    \E p \in Procs :
        /\ p # q
        /\ Done(p, "create")
        /\ Succeeded(res[p])
        /\ CallName(p) = n
        /\ disturbed[p] # "removed"

\* C3: after a create that succeeded, a second create with the same pileupName,
\* with no delete of that name in between and its insert (if it gets to it)
\* answered by the store, returns exactly one DuplicateDocument error and
\* leaves the store as it was.
C3_SecondCreateDuplicate ==
    [][ \A q \in Procs :
          (CreateReturns(q) /\ CreatedBefore(q, CallName(q)) /\ ~fault'[q])
          => /\ OneError(res'[q], "MSPileupDuplicateDocumentError")
             /\ store' = store ]_vars

\* a second, different valid candidate of a created pileupName was refused by
\* the unique index
C3_Witness ==
    \E q \in Procs :
        /\ Done(q, "create")
        /\ Validated(q)
        /\ ~freeAtCall[q]
        /\ CreatedBefore(q, CallName(q))
        /\ OneError(res[q], "MSPileupDuplicateDocumentError")
        /\ \A i \in DOMAIN store : stripKeys(store[i], {"_id"}) # doc[q]

\* C4: when the store fails a create, update or delete with another failure
\* than a duplicate key, the call does not raise: it returns a list with
\* exactly one StoreError.
C4_StoreFailureReturned ==
    \A p \in Procs :
        (pc[p] = "done" /\ fault[p])
        => OneError(res[p], "MSPileupDatabaseError")

\* caller p runs updatePileup's look-up in this step
LookupStep(p) == pc[p] = "update" /\ pc'[p] # "update"

\* C5: an update whose fields lack a non-empty pileupName, or whose pileupName
\* matches no stored record, returns a list with exactly one KeyNotFound error
\* and leaves every stored record unchanged.
C5_UpdateKeyNotFound ==
    [][ \A p \in Procs :
          ( /\ LookupStep(p)
            /\ \/ "pileupName" \notin DOMAIN arg[p]
               \/ ~Truthy(arg[p]["pileupName"])
               \/ Named(store, arg[p]["pileupName"]) = {} )
          => /\ pc'[p] = "done"
             /\ OneError(res'[p], "MSPileupNoKeyFoundError")
             /\ store' = store ]_vars

\* an update of a pileupName that is not stored was refused while another
\* record is stored
C5_Witness ==
    \E p \in Procs :
        /\ Done(p, "update")
        /\ Truthy(CallName(p))
        /\ Named(store, CallName(p)) = {}
        /\ store # <<>>
        /\ OneError(res[p], "MSPileupNoKeyFoundError")

\* caller p runs updatePileup's update_one in this step
WriteStep(p) == pc[p] = "write" /\ pc'[p] = "done"

\* the lastUpdateTime of a document (-1 when it has none)
LastUpdateTimeOf(d) == Get(d, "lastUpdateTime", PyInt(-1))[2]

\* C6: for every update of an existing record, whatever fields the caller
\* passes, the record's insertTime after the update equals its insertTime
\* before it.
C6_InsertTimeUnchanged ==
    [][ \A p \in Procs :
          WriteStep(p)
          => \A i \in DOMAIN store :
                 /\ i \in DOMAIN store'
                 /\ store'[i]["insertTime"] = store[i]["insertTime"] ]_vars

\* C7 as stated: every successful update of an existing record sets the
\* record's lastUpdateTime to the time the update read, and the new value is
\* greater than or equal to the record's previous lastUpdateTime.
C7_LastUpdateTimeNeverDecreases ==
    [][ \A p \in Procs :
          (WriteStep(p) /\ Succeeded(res'[p]))
          => \A i \in Named(store, doc[p]["pileupName"]) :
                 /\ LastUpdateTimeOf(store'[i]) = LastUpdateTimeOf(doc[p])
                 /\ LastUpdateTimeOf(store'[i]) >= LastUpdateTimeOf(store[i]) ]_vars

\* C7 as amended: an update that finds its record stamps its fields with the
\* clock it reads then, whatever lastUpdateTime the caller passed; its
\* successful write stores that stamp, which is not later than the clock at the
\* write, as the record's lastUpdateTime; and the new value is greater than or
\* equal to the previous one whenever the previous one is not later than the
\* stamp.
C7_LastUpdateTimeStamped ==
    [][ \A p \in Procs :
          /\ (LookupStep(p) /\ pc'[p] = "write")
             => Get(doc'[p], "lastUpdateTime", PyInt(-1)) = PyInt(now)
          /\ (WriteStep(p) /\ Succeeded(res'[p]))
             => \A i \in Named(store, doc[p]["pileupName"]) :
                    /\ LastUpdateTimeOf(store'[i]) = LastUpdateTimeOf(doc[p])
                    /\ LastUpdateTimeOf(store'[i]) <= now
                    /\ LastUpdateTimeOf(store[i]) <= LastUpdateTimeOf(doc[p])
                       => LastUpdateTimeOf(store'[i]) >= LastUpdateTimeOf(store[i]) ]_vars

\* an update wrote its stamp, the current time, and not the lastUpdateTime
\* its caller passed
C7_Witness ==
    \E p \in Procs :
        /\ Done(p, "update")
        /\ Succeeded(res[p])
        /\ "lastUpdateTime" \in DOMAIN arg[p]
        /\ arg[p]["lastUpdateTime"] # doc[p]["lastUpdateTime"]
        /\ \E i \in Named(store, CallName(p)) :
               /\ store[i]["lastUpdateTime"] = doc[p]["lastUpdateTime"]
               /\ store[i]["lastUpdateTime"] = PyInt(now)

\* caller q runs getPileup's find in this step
ReadStep(q) == pc[q] = "read" /\ pc'[q] = "done"

\* the validated doc of a create by another caller than q that succeeded for
\* pileupName n, whose record has not been updated or removed since
CreatedDocs(q, n) ==
    { doc[p] : p \in { r \in Procs : /\ r # q
                                     /\ Done(r, "create")
                                     /\ Succeeded(res[r])
                                     /\ CallName(r) = n
                                     /\ disturbed[r] = "none" } }

\* C8: read never returns the store's _id field in any document; a read by
\* pileupName, without projection, that follows a successful create of that
\* name returns exactly one document, equal to the created (defaulted)
\* document in all 15 fields; a read that matches nothing returns an empty
\* sequence and no error.
C8_ReadRoundTrip ==
    [][ \A q \in Procs :
          ReadStep(q)
          => /\ res'[q].out = "returned" /\ res'[q].errs = <<>>
             /\ \A i \in DOMAIN results'[q] : "_id" \notin DOMAIN results'[q][i]
             /\ (~projection[q].given /\ DOMAIN arg[q] = {"pileupName"})
                => \A d \in CreatedDocs(q, arg[q]["pileupName"]) :
                       /\ results'[q] = << d >>
                       /\ DOMAIN d = Range(SchemaKeys)
             /\ MatchingAt(store, arg[q]) = {} => results'[q] = <<>> ]_vars

\* a read by pileupName returned the document another caller created
C8_Witness ==
    \E q \in Procs :
        /\ Done(q, "read")
        /\ ~projection[q].given
        /\ DOMAIN arg[q] = {"pileupName"}
        /\ CreatedDocs(q, CallName(q)) # {}
        /\ \A d \in CreatedDocs(q, CallName(q)) : results[q] = << d >>
        /\ Len(store) = 2

\* caller p runs deletePileup's delete_one in this step
DeleteStep(p) == pc[p] = "delete" /\ pc'[p] = "done"

\* C9: a delete whose query matches no record, answered by the store, returns
\* an empty error list and leaves every stored record unchanged.
C9_DeleteNothing ==
    [][ \A p \in Procs :
          (DeleteStep(p) /\ MatchingAt(store, arg[p]) = {} /\ ~fault'[p])
          => /\ Succeeded(res'[p])
             /\ store' = store ]_vars

\* a delete returned success though no record was ever removed from the
\* store, which holds a record
C9_Witness ==
    \E p \in Procs :
        /\ Done(p, "delete")
        /\ Succeeded(res[p])
        /\ store # <<>>
        /\ Len(store) = inserted
        /\ MatchingAt(store, arg[p]) = {}

\* caller p runs createPileup's construction of MSPileupObj in this step
ValidateStep(p) == pc[p] = "create" /\ pc'[p] # "create"

\* C10: a create whose candidate fails validation returns a list with exactly
\* one DuplicateDocument error that carries the candidate and the validator's
\* message, performs no insert and leaves the store unchanged.
C10_InvalidCreateRefused ==
    [][ \A p \in Procs :
          (ValidateStep(p) /\ ~validate(initData(arg[p], now), validRSEs)[1])
          => /\ pc'[p] = "done"
             /\ OneError(res'[p], "MSPileupDuplicateDocumentError")
             /\ res'[p].errs[1].data = arg[p]
             /\ res'[p].errs[1].message =
                    <<"Failed to create MSPileupObj", "MSPileup input is invalid">>
                        \o validate(initData(arg[p], now), validRSEs)[2]
             /\ store' = store
             /\ inserted' = inserted ]_vars

\* a create of an invalid candidate was refused with the validator's message
\* while the store holds a record
C10_Witness ==
    \E p \in Procs :
        /\ Done(p, "create")
        /\ ~Validated(p)
        /\ OneError(res[p], "MSPileupDuplicateDocumentError")
        /\ res[p].errs[1].message[3] = "pileupType value is neither of"
        /\ store # <<>>


\* the construction of pileupObj has been attempted
Constructed == vpc # "idle"

\* validate has been called on pileupObj
ValidateCalled == vpc = "validated"

\* C11 (as stated): validation fails for every document whose key set is not
\* the schema's, be a key missing (the empty document included) or an
\* unexpected key present, and the construction createPileup attempts from a
\* candidate that carries an unexpected key is rejected
C11_KeySetRejected ==
    /\ (ValidateCalled /\ DOMAIN valArg # DOMAIN schema) => ~valRes[1]
    /\ (Constructed /\ DOMAIN objArg \ DOMAIN schema # {}) => ~pileupObj.ok

\* C12 (as stated): whatever calls were made, every record held in the store
\* has exactly the field names of the schema, the store's own _id aside
C12_StoredFieldsAreSchema ==
    \A i \in DOMAIN store : DOMAIN store[i] \ {"_id"} = DOMAIN schema

\* the stored documents with the given _id
WithId(coll, id) == {j \in DOMAIN coll : coll[j]["_id"] = id}

\* the keys of the fields some caller is about to write with update_one
WrittenKeys == UNION {DOMAIN doc[p] : p \in {q \in Procs : pc[q] = "write"}}

\* C12 (amended): a record enters the store with exactly the field names of
\* the schema (and its _id); no step takes a field name away from a stored
\* record, and the only field names a step adds to it are those of the
\* fields an update writes, which are not validated
C12_FieldsOfCreateAndUpdates ==
    [][\A i \in DOMAIN store' :
          IF WithId(store, store'[i]["_id"]) = {}
            THEN DOMAIN store'[i] \ {"_id"} = DOMAIN schema
          ELSE \A j \in WithId(store, store'[i]["_id"]) :
                  /\ DOMAIN store[j] \subseteq DOMAIN store'[i]
                  /\ DOMAIN store'[i] \ DOMAIN store[j] \subseteq WrittenKeys]_vars

\* an update has given a stored record a field the schema does not have
C12_Witness ==
    \E p \in Procs : \E i \in DOMAIN store :
        /\ Done(p, "update")
        /\ Succeeded(res[p])
        /\ store[i]["pileupName"] = CallName(p)
        /\ DOMAIN arg[p] \ DOMAIN schema # {}
        /\ DOMAIN store[i] = DOMAIN schema \cup DOMAIN arg[p] \cup {"_id"}

\* caller q is in an update of the record named n and has passed, or returned
\* from, its look-up
UpdatingToo(q, n) ==
    /\ op[q] = "update"
    /\ pc[q] \in {"write", "done"}
    /\ CallName(q) = n

\* C13: updates of one existing pileupName are not serialized.  When a caller
\* writes while another update of that name has passed its look-up too, the
\* store answering, the write returns the empty list whatever the other did, and
\* each field both write holds the value of the write that has just happened.
C13_LastWriteWins ==
    [][ \A p \in Procs : \A q \in Procs \ {p} :
          ( /\ WriteStep(p)
            /\ ~fault'[p]
            /\ UpdatingToo(q, CallName(p))
            /\ Named(store, CallName(p)) # {} )
          => /\ Succeeded(res'[p])
             /\ \A i \in Named(store, CallName(p)) :
                    \A k \in DOMAIN doc[p] \cap DOMAIN doc[q] :
                        store'[i][k] = doc[p][k] ]_vars

\* two updates of one name with different fields both found the record as it
\* was before either wrote, both returned the empty list, and the record has
\* the value of the one that wrote last in a field both wrote
C13_Witness ==
    \E p \in Procs : \E q \in Procs \ {p} :
        /\ Done(p, "update") /\ Done(q, "update")
        /\ Succeeded(res[p]) /\ Succeeded(res[q])
        /\ CallName(p) = CallName(q)
        /\ arg[p]["active"] # arg[q]["active"]
        /\ results[p] # <<>>
        /\ results[p] = results[q]
        /\ \E i \in Named(store, CallName(p)) :
               /\ store[i]["active"] = arg[q]["active"]
               /\ DOMAIN arg[p] \cup DOMAIN arg[q] \subseteq DOMAIN store[i]

\* the sites of pileupObj's validRSEs
ValidSites == Range(initRSEs(objRSEs))

\* the document d has the schema's keys, and every key outside keys has a
\* value validation accepts
ValidOutside(d, keys) ==
    /\ DOMAIN d = DOMAIN schema
    /\ \A k \in DOMAIN schema \ keys : validateKey(k, d[k], initRSEs(objRSEs)) = NoMsg

\* C14: for a document whose other fields are valid and whose expectedRSEs and
\* currentRSEs are lists, validation succeeds exactly when every site of both
\* lists is one of the valid sites; with an empty or absent valid-site list
\* that is when both lists are empty.
C14_RSEsWithinValidRSEs ==
    ( /\ Constructed
      /\ ValidOutside(objArg, {"expectedRSEs", "currentRSEs"})
      /\ isinstance(objArg["expectedRSEs"], "list")
      /\ isinstance(objArg["currentRSEs"], "list") )
    => ( pileupObj.ok <=>
           \A k \in {"expectedRSEs", "currentRSEs"} :
               Range(objArg[k][2]) \subseteq ValidSites )

\* a document valid but for a site in currentRSEs was rejected by an object
\* constructed without validRSEs
C14_Witness ==
    /\ Constructed
    /\ objRSEs = NoRSEs
    /\ ValidOutside(objArg, {"currentRSEs"})
    /\ objArg["currentRSEs"] = PyList(<<"Disk1">>)
    /\ ~pileupObj.ok
    /\ pileupObj.msg = <<"MSPileup input is invalid", "currentRSEs", "value is not in validRSEs">>

\* the key of the document pileupObj validated is a float, and the other keys
\* have values validation accepts
FloatFraction ==
    /\ Constructed
    /\ ValidOutside(pileupObj.data, {"containerFraction"})
    /\ pileupObj.data["containerFraction"][1] = "float"

\* C15: for a document whose other fields are valid, validation fails when
\* the float containerFraction is below 0 or above 1 and succeeds when it is
\* 0.0, 1.0 or between them (the payload counts tenths).
C15_ContainerFractionRange ==
    FloatFraction
    => ( pileupObj.ok <=>
           /\ pileupObj.data["containerFraction"][2] >= 0
           /\ pileupObj.data["containerFraction"][2] <= 10 )

\* a document valid but for its containerFraction of 1.1 was rejected for it
C15_Witness ==
    /\ FloatFraction
    /\ pileupObj.data["containerFraction"] = PyFloat(11)
    /\ ~pileupObj.ok
    /\ pileupObj.msg = <<"MSPileup input is invalid", "containerFraction value outside [0,1] range">>

\* the pileupType pileupObj validated is a string, and the other keys have
\* values validation accepts
StrPileupType ==
    /\ Constructed
    /\ ValidOutside(pileupObj.data, {"pileupType"})
    /\ pileupObj.data["pileupType"][1] = "str"

\* C16: for a document whose other fields are valid, validation succeeds
\* exactly when the string pileupType is "classic" or "premix"; any other
\* string fails, the empty string an omitted pileupType defaults to included.
C16_PileupTypeClassicOrPremix ==
    StrPileupType
    => ( pileupObj.ok <=> pileupObj.data["pileupType"][2] \in {"classic", "premix"} )

\* a candidate without pileupType, valid otherwise, was rejected for the
\* empty pileupType it got by default
C16_Witness ==
    /\ StrPileupType
    /\ "pileupType" \notin DOMAIN objArg
    /\ pileupObj.data["pileupType"] = PyStr("")
    /\ ~pileupObj.ok
    /\ pileupObj.msg = <<"MSPileup input is invalid", "pileupType value is neither of", "classic", "premix">>

\* the documents of coll that do not match spec, in store order
NotMatching(coll, spec) == SelectSeq(coll, LAMBDA d : ~Matches(d, spec))

\* C17 (as stated): after a delete that returns the empty list no record
\* matching its querySpec remains, whatever the querySpec and however many
\* records it matches, and the records it does not match are unchanged
C17_DeleteRemovesMatches ==
    [][ \A p \in Procs :
          (DeleteStep(p) /\ Succeeded(res'[p]))
          => /\ MatchingAt(store', arg[p]) = {}
             /\ NotMatching(store', arg[p]) = NotMatching(store, arg[p]) ]_vars

\* C17 (amended): a delete that returns the empty list has removed one record
\* matching its querySpec when there was one, and nothing when there was
\* none; every other record is unchanged.  So no matching record remains when
\* at most one matched, and all but one remain when several did.
C17_DeleteRemovesOneMatch ==
    [][ \A p \in Procs :
          (DeleteStep(p) /\ Succeeded(res'[p]))
          => /\ IF MatchingAt(store, arg[p]) = {} THEN store' = store
                ELSE \E i \in MatchingAt(store, arg[p]) : store' = RemoveAt(store, i)
             /\ NotMatching(store', arg[p]) = NotMatching(store, arg[p])
             /\ Cardinality(MatchingAt(store, arg[p])) <= 1
                    => MatchingAt(store', arg[p]) = {}
             /\ Cardinality(MatchingAt(store, arg[p])) > 1
                    => Cardinality(MatchingAt(store', arg[p])) =
                          Cardinality(MatchingAt(store, arg[p])) - 1 ]_vars

\* a delete whose querySpec matched two records returned the empty list, and
\* one of the two is still stored
C17_Witness ==
    \E p \in Procs :
        /\ Done(p, "delete")
        /\ Succeeded(res[p])
        /\ matched[p] = 2
        /\ Len(store) = 1
        /\ Matches(store[1], arg[p])

\* the keys of d whose value is not of the schema's data type
TypeInvalid(d) == {k \in DOMAIN schema : ~isinstance(d[k], schema[k][2])}

\* the keys of d whose value is of the schema's data type and breaks the
\* key's value rule
RuleInvalid(d) ==
    {k \in DOMAIN schema \ TypeInvalid(d) :
        validateKey(k, d[k], initRSEs(objRSEs)) # NoMsg}

\* the message of the failed data-type check of key k
TypeMsg(k) == <<"Failed to validate", k, "expect data-type", schema[k][2]>>

\* the message pileupObj's construction raised
Raise(msg) == <<"MSPileup input is invalid">> \o msg

\* C18 (as stated): validation checks the data type of every field before any
\* value rule, so a document with a field of the wrong type and another field
\* of the right type that breaks its value rule is reported for the type
C18_TypeFailureFirst ==
    ( /\ Constructed
      /\ TypeInvalid(pileupObj.data) # {}
      /\ RuleInvalid(pileupObj.data) # {} )
    => \E k \in TypeInvalid(pileupObj.data) : pileupObj.msg = Raise(TypeMsg(k))

\* the position in the document pileupObj validated of the first key that
\* fails its type check or its value rule
FirstInvalid ==
    CHOOSE i \in DOMAIN SchemaKeys :
        /\ SchemaKeys[i] \in TypeInvalid(pileupObj.data) \cup RuleInvalid(pileupObj.data)
        /\ \A j \in 1..(i - 1) :
               SchemaKeys[j] \notin TypeInvalid(pileupObj.data) \cup RuleInvalid(pileupObj.data)

\* C18 (amended): validation checks the key set first, then takes the fields
\* in the order of the document (the schema's order for a candidate), checks
\* for each its data type and then its value rule, and reports the first
\* failure it meets: of two invalid fields the earlier is reported, be its
\* failure one of type or of value
C18_FirstFailureInKeyOrder ==
    /\ ( /\ ValidateCalled
         /\ DOMAIN valArg # {}
         /\ DOMAIN valArg # DOMAIN schema )
       => valRes = <<FALSE, <<"provided object keys are not equal to schema keys">>>>
    /\ ( /\ Constructed
         /\ TypeInvalid(pileupObj.data) \cup RuleInvalid(pileupObj.data) # {} )
       => /\ ~pileupObj.ok
          /\ pileupObj.msg =
                Raise(validateKey(SchemaKeys[FirstInvalid],
                                  pileupObj.data[SchemaKeys[FirstInvalid]],
                                  initRSEs(objRSEs)))
          /\ SchemaKeys[FirstInvalid] \in TypeInvalid(pileupObj.data)
                => pileupObj.msg = Raise(TypeMsg(SchemaKeys[FirstInvalid]))

\* a document with a pileupType that is a string but neither classic nor
\* premix, and with an active that is no boolean, was rejected for its
\* pileupType
C18_Witness ==
    /\ Constructed
    /\ "pileupType" \in RuleInvalid(pileupObj.data)
    /\ "active" \in TypeInvalid(pileupObj.data)
    /\ pileupObj.msg = Raise(<<"pileupType value is neither of", "classic", "premix">>)

\* C19 (as stated): validation fails whenever the value of one of the 15
\* fields is of another runtime type than the one the schema declares for it,
\* a boolean for an integer field as much as an integer for the float field
C19_TypeMismatchRejected ==
    ( /\ Constructed
      /\ \E k \in DOMAIN schema : pileupObj.data[k][1] # schema[k][2] )
    => ~pileupObj.ok

\* C20: the write of an update of an existing record, the store answering,
\* returns the empty list whether or not the fields are valid; the record
\* then has the caller's value in every field the caller passed but
\* lastUpdateTime, the stamp of the update in lastUpdateTime, and its former
\* value in every other field; no other record changes.
C20_UpdateMergesFields ==
    [][ \A p \in Procs :
          (WriteStep(p) /\ ~fault'[p])
          => /\ Succeeded(res'[p])
             /\ DOMAIN store' = DOMAIN store
             /\ \A i \in DOMAIN store :
                    IF store[i]["pileupName"] = CallName(p)
                      THEN /\ \A k \in DOMAIN arg[p] \ {"lastUpdateTime"} :
                                  store'[i][k] = arg[p][k]
                           /\ store'[i]["lastUpdateTime"] = doc[p]["lastUpdateTime"]
                           /\ LastUpdateTimeOf(store'[i]) <= now
                           /\ \A k \in DOMAIN store[i] \ (DOMAIN arg[p] \cup {"lastUpdateTime"}) :
                                  store'[i][k] = store[i][k]
                    ELSE store'[i] = store[i] ]_vars

\* an update that passed a field the schema does not have returned the empty
\* list; the record has that field and the update's stamp, and the pileupType
\* and insertTime the update found
C20_Witness ==
    \E p \in Procs : \E i \in DOMAIN store :
        /\ Done(p, "update")
        /\ Succeeded(res[p])
        /\ store[i]["pileupName"] = CallName(p)
        /\ "comment" \in DOMAIN arg[p]
        /\ store[i]["comment"] = arg[p]["comment"]
        /\ store[i]["active"] = arg[p]["active"]
        /\ store[i]["lastUpdateTime"] = doc[p]["lastUpdateTime"]
        /\ store[i]["pileupType"] = results[p][1]["pileupType"]
        /\ store[i]["insertTime"] = results[p][1]["insertTime"]

\* C21: an update whose look-up by pileupName finds more than one record
\* returns at the look-up with a list of exactly one UniqueConstraintViolated
\* error; it never reaches its write, and the store is unchanged.
C21_SeveralMatchesRefused ==
    [][ \A p \in Procs :
          ( /\ LookupStep(p)
            /\ Truthy(CallName(p))
            /\ Cardinality(Named(store, CallName(p))) > 1 )
          => /\ pc'[p] = "done"
             /\ OneError(res'[p], "MSPileupUniqueConstrainError")
             /\ store' = store ]_vars

\* an update that found the two records of one name returned the one error,
\* and both records are as they were
C21_Witness ==
    \E p \in Procs :
        /\ Done(p, "update")
        /\ OneError(res[p], "MSPileupUniqueConstrainError")
        /\ Len(results[p]) = 2
        /\ store = DupStore

\* C22: no step of an update changes the number of stored records.  When the
\* record the look-up found is gone at the write, the write, the store
\* answering, changes nothing and still returns the empty list.
C22_UpdateNeverInserts ==
    [][ \A p \in Procs :
          /\ LookupStep(p) => store' = store
          /\ WriteStep(p) => Len(store') = Len(store)
          /\ ( /\ WriteStep(p)
               /\ ~fault'[p]
               /\ Named(store, CallName(p)) = {} )
             => /\ store' = store
                /\ Succeeded(res'[p]) ]_vars

\* an update found its record, wrote when no record matched any more and
\* returned the empty list; the store has no record of that name
C22_Witness ==
    \E p \in Procs :
        /\ Done(p, "update")
        /\ Succeeded(res[p])
        /\ Len(results[p]) = 1
        /\ matched[p] = 0
        /\ disturbed[p] = "removed"
        /\ Named(store, CallName(p)) = {}

\* the command state of a GFAL2Impl object
CommandState(self) == <<self.setups, self.copyCommand, self.removeCommand>>

\* C23: after any sequence of adjustSetup, createStageOutCommand and
\* createDebuggingCommand calls, setups, copyCommand and removeCommand are
\* what the last call's authmethod and forcemethod give on a newly
\* constructed object, whatever the calls before it; with authmethod None
\* they are the values the constructor set.
C23_CommandStateOfLastCall ==
    gfalCalls > 0
    => /\ CommandState(gfal) =
            CommandState(adjustSetup(GFAL2Impl(gfal.stageIn),
                                     lastCall.authmethod, lastCall.forcemethod))
       /\ lastCall.authmethod = NoAuth
            => CommandState(gfal) = CommandState(GFAL2Impl(gfal.stageIn))

\* adjustSetup with authmethod None was called on an object that had built a
\* stage-out command with the token forced before, and the object has the
\* command state of its construction
C23_Witness ==
    /\ gfalCalls = MaxGfalCalls
    /\ lastCall = Call("adjustSetup", NoAuth, FALSE)
    /\ \E i \in DOMAIN command : command[i] = UnsetX509
    /\ CommandState(gfal) = CommandState(GFAL2Impl(gfal.stageIn))


=============================================================================
